---------------------------- MODULE Spec2Model ----------------------------
(***************************************************************************)
(* Aurelio: the ledger form of the home view (saveToLadger,                *)
(* updateDebitCreditValues, onMounted), the file archive and the SQLite    *)
(* table it writes to, and the migration list assembled by the Tauri       *)
(* backend (all_migrations, run).                                          *)
(*                                                                         *)
(* JavaScript runs to completion between awaits: every action below is one *)
(* event handler, or the continuation of one awaited call together with    *)
(* the effect of that call on the file system or the database.  A select   *)
(* is two actions, the read of the table and the continuation that assigns *)
(* the rows read, since the table can change in between.                   *)
(*                                                                         *)
(* Spec is the program as it is.  RegistrySpec is its startup over every   *)
(* list of migrations all_migrations may come to hold.  AppHomeSpec is the *)
(* home view of src/views/AppHome.vue, which archives without a database.  *)
(***************************************************************************)
EXTENDS Integers, Sequences, FiniteSets

(***************************************************************************)
(* Bounds of the model.                                                    *)
(***************************************************************************)
\* number of saveToLadger invocations (keyup.enter events) in one run
MaxSaves == 2
\* the millisecond clock read by new Date() runs from 0 to MaxClock
MaxClock == 1
\* number of input events on the form in one run
MaxInputs == 2
\* number of migrations listed in the vec of all_migrations
MaxRegistered == 3

Invocations == 1..MaxSaves

(***************************************************************************)
(* JavaScript values held by the refs debit and credit: a number or a      *)
(* string (evt.target.value is always a string).                           *)
(***************************************************************************)
Num(n) == [t |-> "number", n |-> n, s |-> ""]
Str(s) == [t |-> "string", n |-> 0, s |-> s]

Abs(n) == IF n < 0 THEN -n ELSE n

Digits == <<"0", "1", "2", "3", "4", "5", "6", "7", "8", "9">>

\* Number.prototype.toString for the integers of the model
DecimalString(n) == IF n < 0 THEN "-" \o Digits[(-n) + 1] ELSE Digits[n + 1]

\* the amounts typed into the number inputs
Amounts == {-1, 0, 1}

\* the strings an <input type="number"> reports as its value: "" when the
\* field is empty or holds no number, the decimal string otherwise
NumberInputs == {""} \cup {DecimalString(n) : n \in Amounts \ {0}}

\* the strings typed into the text inputs
DebitorInputs == {"Alice"}
CreditorInputs == {" ", "Bob"}

\* ToNumber of a string: "" is 0, a decimal string is its value
StringToNumber(s) == IF s = "" THEN 0 ELSE CHOOSE n \in Amounts : DecimalString(n) = s

\* ToNumber(value), as applied by Math.abs, by > and by unary minus
ToNumber(v) == IF v.t = "number" THEN v.n ELSE StringToNumber(v.s)

\* ToString(value), as applied by a template literal
ToString(v) == IF v.t = "number" THEN DecimalString(v.n) ELSE v.s

\* Math.abs(value): always a number
Math_abs(v) == Num(Abs(ToNumber(v)))

(***************************************************************************)
(* updateDebitCreditValues (lines 62-66): the values it assigns to credit  *)
(* and debit for the argument value.  A positive value is negated (and     *)
(* becomes a number); any other value is stored as it was passed.          *)
(***************************************************************************)
updateDebitCreditValues_Unsigned(value) ==
    [credit |-> Math_abs(value), debit |-> value]

updateDebitCreditValues(value) ==
    [credit |-> Math_abs(value),
     debit  |-> IF ToNumber(value) > 0 THEN Num(-ToNumber(value)) ELSE value]

(***************************************************************************)
(* Strings assembled from parts are kept as the sequence of their parts:   *)
(* the quasis and substitutions of a template literal, the fields and      *)
(* separators of an ISO timestamp.  Join gives the string itself.          *)
(***************************************************************************)
RECURSIVE Join(_)
Join(parts) == IF parts = <<>> THEN "" ELSE Head(parts) \o Join(Tail(parts))

\* new Date().toISOString() at clock value t (t milliseconds after the epoch of the model)
toISOString(t) == <<"2026-01-01", "T", "00", ":", "00", ":", "00", ".", "00" \o Digits[t + 1], "Z">>

\* .replace(/[:.]/g, '-') on the parts of a timestamp
replaceColonDot(parts) ==
    [k \in DOMAIN parts |-> IF parts[k] \in {":", "."} THEN "-" ELSE parts[k]]

dirPath == "Vault/Finance/Transactions"

\* lines 21-23: timestamp, filename, fullPath
timestamp(t) == Join(replaceColonDot(toISOString(t)))
filename(t) == "ladger-entry-" \o timestamp(t) \o ".md"
fullPath(t) == dirPath \o "/" \o filename(t)

\* line 17: the template literal, as quasis and substitutions
content(a, d, c, b) ==
    <<"---\ndebitor: ", a, "\ndebit: ", ToString(d), "\ncredit: ", ToString(c),
      "\ncreditor: ", b, "\n---\n">>

\* the fields of an archival file, read back from its content
FileDebitor(f) == f.content[2]
FileDebit(f) == f.content[4]
FileCredit(f) == f.content[6]
FileCreditor(f) == f.content[8]

(***************************************************************************)
(* Migrations (part_003).  A version YYYYMMDD_NNNNNN is an i64; it is kept *)
(* as the pair <<YYYYMMDD, NNNNNN>>, ordered lexicographically.            *)
(***************************************************************************)
VersionLess(v, w) == v[1] < w[1] \/ (v[1] = w[1] /\ v[2] < w[2])

\* m20250115_000001_create_users::migration()
create_users == [version |-> <<20250115, 1>>, description |-> "create users table"]

\* stable insertion of m into a sequence sorted by version
RECURSIVE InsertByVersion(_, _)
InsertByVersion(m, sorted) ==
    IF sorted = <<>> THEN <<m>>
    ELSE IF VersionLess(m.version, Head(sorted).version)
         THEN <<m>> \o sorted
         ELSE <<Head(sorted)>> \o InsertByVersion(m, Tail(sorted))

\* the vec returned as it was listed
sort_by_key_AsListed(ms) == ms

\* migrations.sort_by_key(|m| m.version): a stable sort
RECURSIVE sort_by_key(_)
sort_by_key(ms) ==
    IF ms = <<>> THEN <<>>
    ELSE InsertByVersion(ms[Len(ms)], sort_by_key(SubSeq(ms, 1, Len(ms) - 1)))

HasDuplicateVersion(ms) ==
    \E j \in DOMAIN ms : \E k \in DOMAIN ms : j # k /\ ms[j].version = ms[k].version

\* all_migrations over the vec listed in the source; the assertion on
\* duplicate versions is compiled only when debug_assertions is set
all_migrations(listed, debug_assertions) ==
    LET sorted == sort_by_key(listed)
    IN  IF debug_assertions /\ HasDuplicateVersion(sorted)
        THEN [panic |-> TRUE, migrations |-> <<>>]
        ELSE [panic |-> FALSE, migrations |-> sorted]

ListedMigrations == <<create_users>>

\* the migrations a later revision may list at lines 175-177, in any order:
\* versions of the YYYYMMDD_NNNNNN convention, two descriptions for each
Versions == {<<20250115, 1>>, <<20250115, 2>>, <<20250201, 1>>}
Descriptors ==
    [version : Versions, description : {"create users table", "create accounts table"}]
RegisteredLists ==
    UNION {[1..n -> Descriptors] : n \in 0..MaxRegistered}

(***************************************************************************)
(* State.                                                                  *)
(***************************************************************************)
VARIABLES
    registered,    \* the vec listed in all_migrations, in the order it is written
    appPc,         \* the backend: "start", "running" or "panicked"
    migrations,    \* the list handed to add_migrations
    applied,       \* versions the SQL plugin has run against aurelio.db
    mountPc,       \* onMounted: "init", "load", "select", "assign", "done", "rejected"
    mountResult,   \* rows returned to onMounted's select, until assigned
    db,            \* db.value: "null" or "handle"
    debitor, debit, credit, creditor,   \* the refs behind the form inputs
    transactions,  \* transactions.value
    tbl,           \* the rows of the transactions table, by id
    dir,           \* whether Vault/Finance/Transactions exists
    files,         \* the archive: the file at each path, NoFile where there is none
    now,           \* the clock
    inv,           \* the saveToLadger invocations
    started,       \* how many invocations have started
    inputs,        \* how many input events there have been
    archived       \* invocations whose writeTextFile returned

form == <<debitor, debit, credit, creditor>>
backend == <<registered, appPc, migrations, applied>>
mount == <<mountPc, mountResult>>
store == <<tbl, dir, files>>
vars == <<registered, appPc, migrations, applied, mountPc, mountResult, db, debitor, debit, credit,
          creditor, transactions, tbl, dir, files, now, inv, started, inputs, archived>>

\* the paths saveToLadger can compute within the clock's range
Paths == {fullPath(t) : t \in 0..MaxClock}

NoFile == [content |-> <<>>, by |-> 0]

\* an invocation: its position, its locals, the promise it returned and
\* what it has passed to console.error
NoLocals == [pc |-> "idle", content |-> <<>>, fullPath |-> "", args |-> <<>>,
             result |-> <<>>, promise |-> "none", logged |-> ""]

\* the function has returned: the promise of the async function is
\* fulfilled with undefined, the locals are gone
Returned(pc, error) ==
    [NoLocals EXCEPT !.pc = pc, !.promise = "fulfilled", !.logged = error]

\* a first start: the refs as script setup leaves them (lines 8-13), no
\* archive directory yet, an empty database
FirstStart ==
    /\ appPc = "start"
    /\ migrations = <<>>
    /\ applied = {}
    /\ mountPc = "init"
    /\ mountResult = <<>>
    /\ db = "null"
    /\ debitor = ""
    /\ debit = Num(0)
    /\ credit = Num(0)
    /\ creditor = ""
    /\ transactions = <<>>
    /\ tbl = <<>>
    /\ dir = FALSE
    /\ files = [p \in Paths |-> NoFile]
    /\ now = 0
    /\ inv = [i \in Invocations |-> NoLocals]
    /\ started = 0
    /\ inputs = 0
    /\ archived = {}

\* the program as it is: all_migrations lists create_users alone
Init ==
    /\ registered = ListedMigrations
    /\ FirstStart

(***************************************************************************)
(* The backend: run (part_003 lines 333-358) builds the migration list and *)
(* hands it to the SQL plugin before the window, and with it the           *)
(* component, exists.                                                      *)
(***************************************************************************)
run ==
    /\ appPc = "start"
    /\ \E debug_assertions \in BOOLEAN :
         LET r == all_migrations(registered, debug_assertions)
         IN  /\ appPc' = IF r.panic THEN "panicked" ELSE "running"
             /\ migrations' = r.migrations
    /\ UNCHANGED <<registered, applied, mount, db, form, transactions, store, now, inv, started, inputs,
                   archived>>

(***************************************************************************)
(* onMounted (lines 68-71).                                                *)
(***************************************************************************)
\* the component is mounted: Database.load is called
onMounted ==
    /\ appPc = "running"
    /\ mountPc = "init"
    /\ mountPc' = "load"
    /\ UNCHANGED <<backend, mountResult, db, form, transactions, store, now, inv, started, inputs,
                   archived>>

\* Database.load returns: the plugin has run the pending migrations; line 69
\* assigns the handle and line 70 calls select
loadReturn ==
    /\ mountPc = "load"
    /\ applied' = applied \cup {migrations[k].version : k \in DOMAIN migrations}
    /\ db' = "handle"
    /\ mountPc' = "select"
    /\ UNCHANGED <<registered, appPc, migrations, mountResult, form, transactions, store,
                   now, inv, started, inputs, archived>>

\* Database.load rejects: onMounted ends, db.value stays null
loadThrow ==
    /\ mountPc = "load"
    /\ mountPc' = "rejected"
    /\ UNCHANGED <<backend, mountResult, db, form, transactions, store, now, inv, started, inputs,
                   archived>>

\* the select of line 70 reads the table
mountSelectRead ==
    /\ mountPc = "select"
    /\ mountResult' = tbl
    /\ mountPc' = "assign"
    /\ UNCHANGED <<backend, db, form, transactions, store, now, inv, started, inputs, archived>>

mountSelectThrow ==
    /\ mountPc = "select"
    /\ mountPc' = "rejected"
    /\ UNCHANGED <<backend, mountResult, db, form, transactions, store, now, inv, started, inputs,
                   archived>>

\* the awaited select resumes: line 70 assigns transactions.value
mountAssign ==
    /\ mountPc = "assign"
    /\ transactions' = mountResult
    /\ mountResult' = <<>>
    /\ mountPc' = "done"
    /\ UNCHANGED <<backend, db, form, store, now, inv, started, inputs, archived>>

(***************************************************************************)
(* The form (template lines 79-96).  The inputs exist once the component   *)
(* is rendered, which is before Database.load returns.                     *)
(***************************************************************************)
Rendered == mountPc # "init"

\* v-model on the debitor input
inputDebitor(s) ==
    /\ Rendered
    /\ inputs < MaxInputs
    /\ inputs' = inputs + 1
    /\ debitor' = s
    /\ UNCHANGED <<backend, mount, db, debit, credit, creditor, transactions, store, now,
                   inv, started, archived>>

\* v-model on the creditor input
inputCreditor(s) ==
    /\ Rendered
    /\ inputs < MaxInputs
    /\ inputs' = inputs + 1
    /\ creditor' = s
    /\ UNCHANGED <<backend, mount, db, debitor, debit, credit, transactions, store, now,
                   inv, started, archived>>

\* an input event on the debit input with the v-model listener alone: the
\* ref is assigned the number typed
inputAmount_VModelOnly(s) ==
    /\ Rendered
    /\ inputs < MaxInputs
    /\ inputs' = inputs + 1
    /\ debit' = IF s = "" THEN Str(s) ELSE Num(StringToNumber(s))
    /\ UNCHANGED <<backend, mount, db, debitor, credit, creditor, transactions, store, now,
                   inv, started, archived>>

\* an input event on the debit or the credit input (lines 86 and 90): the
\* v-model listener assigns the ref of that input, then the @input listener
\* calls updateDebitCreditValues(evt.target.value), which assigns both refs
inputAmount(s) ==
    /\ Rendered
    /\ inputs < MaxInputs
    /\ inputs' = inputs + 1
    /\ credit' = updateDebitCreditValues(Str(s)).credit
    /\ debit' = updateDebitCreditValues(Str(s)).debit
    /\ UNCHANGED <<backend, mount, db, debitor, creditor, transactions, store, now, inv,
                   started, archived>>

\* time passes
Tick ==
    /\ now < MaxClock
    /\ now' = now + 1
    /\ UNCHANGED <<backend, mount, db, form, transactions, store, inv, started, inputs, archived>>

(***************************************************************************)
(* saveToLadger (lines 15-61), one invocation i per keyup.enter on the     *)
(* creditor input.  Nothing in the handler or the template keeps a second  *)
(* invocation from starting while the first awaits.                        *)
(***************************************************************************)
At(i, pc) == inv[i].pc = pc

Goto(i, pc) == inv' = [inv EXCEPT ![i].pc = pc]

\* lines 52-55
ResetForm ==
    /\ debitor' = ""
    /\ debit' = Num(0)
    /\ credit' = Num(0)
    /\ creditor' = ""

\* lines 57-59: the one catch block of the handler receives whatever was
\* thrown in the try block, passes it to console.error and returns
catch_ClearsForm(i, error) ==
    /\ inv' = [inv EXCEPT ![i] = Returned("caught", error)]
    /\ ResetForm
    /\ UNCHANGED transactions

catch(i, error) ==
    /\ inv' = [inv EXCEPT ![i] = Returned("caught", error)]
    /\ UNCHANGED <<form, transactions>>

\* lines 15-26: the content is rendered from the refs, the path is computed
\* from the clock, and exists is called
saveToLadger(i) ==
    /\ Rendered
    /\ i = started + 1
    /\ started' = i
    /\ inv' = [inv EXCEPT ![i] = [NoLocals EXCEPT
                  !.pc = "exists",
                  !.promise = "pending",
                  !.content = content(debitor, debit, credit, creditor),
                  !.fullPath = fullPath(now)]]
    /\ UNCHANGED <<backend, mount, db, form, transactions, store, now, inputs, archived>>

\* lines 26-35: exists returns dirExists; mkdir is called if it is false,
\* writeTextFile otherwise
existsReturn(i) ==
    /\ At(i, "exists")
    /\ Goto(i, IF dir THEN "writeTextFile" ELSE "mkdir")
    /\ UNCHANGED <<backend, mount, db, form, transactions, store, now, started, inputs, archived>>

existsThrow(i) ==
    /\ At(i, "exists")
    /\ catch(i, "fs error")
    /\ UNCHANGED <<backend, mount, db, store, now, started, inputs, archived>>

\* lines 31-35: mkdir (recursive) returns; writeTextFile is called
mkdirReturn(i) ==
    /\ At(i, "mkdir")
    /\ dir' = TRUE
    /\ Goto(i, "writeTextFile")
    /\ UNCHANGED <<backend, mount, db, form, transactions, tbl, files, now, started, inputs,
                   archived>>

mkdirThrow(i) ==
    /\ At(i, "mkdir")
    /\ catch(i, "fs error")
    /\ UNCHANGED <<backend, mount, db, store, now, started, inputs, archived>>

\* the row values of lines 44-48, read from the refs and the clock when
\* execute is called
InsertArgs ==
    [debitor |-> debitor, debit |-> debit, credit |-> credit, creditor |-> creditor,
     timestamp |-> Join(toISOString(now))]

\* writeTextFile has thrown
writeTextFileThrow_Ignored(i) ==
    /\ At(i, "writeTextFile")
    /\ db = "handle"
    /\ inv' = [inv EXCEPT ![i].pc = "execute", ![i].args = InsertArgs]
    /\ UNCHANGED <<backend, mount, db, form, transactions, store, now, started, inputs, archived>>

writeTextFileThrow(i) ==
    /\ At(i, "writeTextFile")
    /\ catch(i, "fs error")
    /\ UNCHANGED <<backend, mount, db, store, now, started, inputs, archived>>

\* lines 35-49: writeTextFile has written the file (replacing a file already
\* at that path) and returns; db.value.execute is called with the current
\* values of the refs.  While db.value is still null the call throws a
\* TypeError, which the catch block receives.
writeTextFileReturn(i) ==
    /\ At(i, "writeTextFile")
    /\ files' = [files EXCEPT ![inv[i].fullPath] = [content |-> inv[i].content, by |-> i]]
    /\ archived' = archived \cup {i}
    /\ IF db = "null"
       THEN catch(i, "TypeError")
       ELSE /\ inv' = [inv EXCEPT ![i].pc = "execute", ![i].args = InsertArgs]
            /\ UNCHANGED <<form, transactions>>
    /\ UNCHANGED <<backend, mount, db, tbl, dir, now, started, inputs>>

\* lines 40-50: the INSERT has added one row (id is the autoincrement key)
\* and execute returns; select is called
executeReturn(i) ==
    /\ At(i, "execute")
    /\ tbl' = Append(tbl, [id        |-> Len(tbl) + 1,
                           debitor   |-> inv[i].args.debitor,
                           debit     |-> inv[i].args.debit,
                           credit    |-> inv[i].args.credit,
                           creditor  |-> inv[i].args.creditor,
                           timestamp |-> inv[i].args.timestamp,
                           by        |-> i])
    /\ inv' = [inv EXCEPT ![i].pc = "select", ![i].args = <<>>]
    /\ UNCHANGED <<backend, mount, db, form, transactions, dir, files, now, started, inputs,
                   archived>>

\* execute has thrown
executeThrow_UndoesFile(i) ==
    /\ At(i, "execute")
    /\ files' = [files EXCEPT ![inv[i].fullPath] = NoFile]
    /\ catch(i, "sql error")
    /\ UNCHANGED <<backend, mount, db, tbl, dir, now, started, inputs, archived>>

executeThrow(i) ==
    /\ At(i, "execute")
    /\ catch(i, "sql error")
    /\ UNCHANGED <<backend, mount, db, store, now, started, inputs, archived>>

\* the select of line 50 reads the table
selectRead(i) ==
    /\ At(i, "select")
    /\ inv' = [inv EXCEPT ![i].pc = "assign", ![i].result = tbl]
    /\ UNCHANGED <<backend, mount, db, form, transactions, store, now, started, inputs, archived>>

selectThrow(i) ==
    /\ At(i, "select")
    /\ catch(i, "sql error")
    /\ UNCHANGED <<backend, mount, db, store, now, started, inputs, archived>>

\* lines 50-55: the awaited select resumes; transactions.value is assigned
\* and the form is cleared
assign_Appends(i) ==
    /\ At(i, "assign")
    /\ transactions' = transactions \o inv[i].result
    /\ ResetForm
    /\ inv' = [inv EXCEPT ![i] = Returned("done", "")]
    /\ UNCHANGED <<backend, mount, db, store, now, started, inputs, archived>>

assign(i) ==
    /\ At(i, "assign")
    /\ transactions' = inv[i].result
    /\ ResetForm
    /\ inv' = [inv EXCEPT ![i] = Returned("done", "")]
    /\ UNCHANGED <<backend, mount, db, store, now, started, inputs, archived>>

Next ==
    \/ run
    \/ onMounted
    \/ loadReturn
    \/ loadThrow
    \/ mountSelectRead
    \/ mountSelectThrow
    \/ mountAssign
    \/ \E s \in DebitorInputs : inputDebitor(s)
    \/ \E s \in CreditorInputs : inputCreditor(s)
    \/ \E s \in NumberInputs : inputAmount(s)
    \/ Tick
    \/ \E i \in Invocations : saveToLadger(i)
    \/ \E i \in Invocations : existsReturn(i)
    \/ \E i \in Invocations : existsThrow(i)
    \/ \E i \in Invocations : mkdirReturn(i)
    \/ \E i \in Invocations : mkdirThrow(i)
    \/ \E i \in Invocations : writeTextFileReturn(i)
    \/ \E i \in Invocations : writeTextFileThrow(i)
    \/ \E i \in Invocations : executeReturn(i)
    \/ \E i \in Invocations : executeThrow(i)
    \/ \E i \in Invocations : selectRead(i)
    \/ \E i \in Invocations : selectThrow(i)
    \/ \E i \in Invocations : assign(i)

Spec == Init /\ [][Next]_vars

(***************************************************************************)
(* The steps of invocation i after saveToLadger was called: an awaited     *)
(* call returns or throws and the continuation runs.                       *)
(***************************************************************************)
Completes(i) ==
    \/ existsReturn(i) \/ existsThrow(i)
    \/ mkdirReturn(i) \/ mkdirThrow(i)
    \/ writeTextFileReturn(i) \/ writeTextFileThrow(i)
    \/ executeReturn(i) \/ executeThrow(i)
    \/ selectRead(i) \/ selectThrow(i)
    \/ assign(i)

(***************************************************************************)
(* The startup of the program over every list of migrations all_migrations  *)
(* may come to hold: run finalizes the list and hands it to the SQL plugin, *)
(* which applies it when the component loads the database.                  *)
(***************************************************************************)
RegistryInit ==
    /\ registered \in RegisteredLists
    /\ FirstStart

RegistryNext ==
    \/ run
    \/ onMounted
    \/ loadReturn
    \/ loadThrow

RegistrySpec == RegistryInit /\ [][RegistryNext]_vars

(***************************************************************************)
(* The home view of src/views/AppHome.vue: the same form, whose            *)
(* saveToLadger writes the archival file and resets the form; it has no    *)
(* database and no onMounted hook.                                         *)
(***************************************************************************)
\* AppHome.vue line 18: the template literal, as quasis and substitutions
AppHome_content(a, d, c, b) ==
    <<"---debitor: ", a, "\ndebit: ", ToString(d), "\ncredit: ", ToString(c),
      "\ncreditor: ", b, "\n---\n">>

AppHome_dirPath == "Vault/Transactions"

\* AppHome.vue lines 22-24: timestamp, filename, fullPath
AppHome_fullPath(t) == AppHome_dirPath \o "/" \o "ladger-entry-" \o timestamp(t) \o ".md"

AppHome_Paths == {AppHome_fullPath(t) : t \in 0..MaxClock}

\* the view is rendered in the window the backend has opened
AppHome_Rendered == appPc = "running"

AppHomeInit ==
    /\ registered = ListedMigrations
    /\ appPc = "start"
    /\ migrations = <<>>
    /\ applied = {}
    /\ mountPc = "init"
    /\ mountResult = <<>>
    /\ db = "null"
    /\ debitor = ""
    /\ debit = Num(0)
    /\ credit = Num(0)
    /\ creditor = ""
    /\ transactions = <<>>
    /\ tbl = <<>>
    /\ dir = FALSE
    /\ files = [p \in AppHome_Paths |-> NoFile]
    /\ now = 0
    /\ inv = [i \in Invocations |-> NoLocals]
    /\ started = 0
    /\ inputs = 0
    /\ archived = {}

\* v-model on the debitor input (AppHome.vue line 66)
AppHome_inputDebitor(s) ==
    /\ AppHome_Rendered
    /\ inputs < MaxInputs
    /\ inputs' = inputs + 1
    /\ debitor' = s
    /\ UNCHANGED <<backend, mount, db, debit, credit, creditor, transactions, store, now,
                   inv, started, archived>>

\* v-model on the creditor input (AppHome.vue line 78)
AppHome_inputCreditor(s) ==
    /\ AppHome_Rendered
    /\ inputs < MaxInputs
    /\ inputs' = inputs + 1
    /\ creditor' = s
    /\ UNCHANGED <<backend, mount, db, debitor, debit, credit, transactions, store, now,
                   inv, started, archived>>

\* an input event on the debit or the credit input (AppHome.vue lines 70
\* and 74), with updateDebitCreditValues of lines 51-55, which is that of
\* the view with the database
AppHome_inputAmount(s) ==
    /\ AppHome_Rendered
    /\ inputs < MaxInputs
    /\ inputs' = inputs + 1
    /\ credit' = updateDebitCreditValues(Str(s)).credit
    /\ debit' = updateDebitCreditValues(Str(s)).debit
    /\ UNCHANGED <<backend, mount, db, debitor, creditor, transactions, store, now, inv,
                   started, archived>>

\* AppHome.vue lines 10-27: the content is rendered from the refs, the path
\* is computed from the clock, and exists is called
AppHome_saveToLadger(i) ==
    /\ AppHome_Rendered
    /\ i = started + 1
    /\ started' = i
    /\ inv' = [inv EXCEPT ![i] = [NoLocals EXCEPT
                  !.pc = "exists",
                  !.promise = "pending",
                  !.content = AppHome_content(debitor, debit, credit, creditor),
                  !.fullPath = AppHome_fullPath(now)]]
    /\ UNCHANGED <<backend, mount, db, form, transactions, store, now, inputs, archived>>

\* AppHome.vue lines 27-36
AppHome_existsReturn(i) ==
    /\ At(i, "exists")
    /\ Goto(i, IF dir THEN "writeTextFile" ELSE "mkdir")
    /\ UNCHANGED <<backend, mount, db, form, transactions, store, now, started, inputs, archived>>

\* AppHome.vue lines 46-48: the catch block, as in the view with the database
AppHome_existsThrow(i) ==
    /\ At(i, "exists")
    /\ catch(i, "fs error")
    /\ UNCHANGED <<backend, mount, db, store, now, started, inputs, archived>>

\* AppHome.vue lines 32-36
AppHome_mkdirReturn(i) ==
    /\ At(i, "mkdir")
    /\ dir' = TRUE
    /\ Goto(i, "writeTextFile")
    /\ UNCHANGED <<backend, mount, db, form, transactions, tbl, files, now, started, inputs,
                   archived>>

AppHome_mkdirThrow(i) ==
    /\ At(i, "mkdir")
    /\ catch(i, "fs error")
    /\ UNCHANGED <<backend, mount, db, store, now, started, inputs, archived>>

\* AppHome.vue lines 36-44: writeTextFile has written the file and returns;
\* the form is cleared and the function returns
AppHome_writeTextFileReturn(i) ==
    /\ At(i, "writeTextFile")
    /\ files' = [files EXCEPT ![inv[i].fullPath] = [content |-> inv[i].content, by |-> i]]
    /\ archived' = archived \cup {i}
    /\ ResetForm
    /\ inv' = [inv EXCEPT ![i] = Returned("done", "")]
    /\ UNCHANGED <<backend, mount, db, transactions, tbl, dir, now, started, inputs>>

AppHome_writeTextFileThrow(i) ==
    /\ At(i, "writeTextFile")
    /\ catch(i, "fs error")
    /\ UNCHANGED <<backend, mount, db, store, now, started, inputs, archived>>

AppHomeNext ==
    \/ run
    \/ \E s \in DebitorInputs : AppHome_inputDebitor(s)
    \/ \E s \in CreditorInputs : AppHome_inputCreditor(s)
    \/ \E s \in NumberInputs : AppHome_inputAmount(s)
    \/ Tick
    \/ \E i \in Invocations : AppHome_saveToLadger(i)
    \/ \E i \in Invocations : AppHome_existsReturn(i)
    \/ \E i \in Invocations : AppHome_existsThrow(i)
    \/ \E i \in Invocations : AppHome_mkdirReturn(i)
    \/ \E i \in Invocations : AppHome_mkdirThrow(i)
    \/ \E i \in Invocations : AppHome_writeTextFileReturn(i)
    \/ \E i \in Invocations : AppHome_writeTextFileThrow(i)

AppHomeSpec == AppHomeInit /\ [][AppHomeNext]_vars

(***************************************************************************)
(* Vocabulary of the claims.                                               *)
(***************************************************************************)
InFlight(i) == inv[i].pc \notin {"idle", "done", "caught"}

\* the archival files there are
Written == {p \in Paths : files[p].by # 0}

RowsBy(rows, i) == {k \in DOMAIN rows : rows[k].by = i}

\* the migration list is finalized, its migrations are applied and
\* db.value holds the handle
StartupCompleted ==
    /\ appPc = "running"
    /\ db = "handle"
    /\ \A k \in DOMAIN migrations : migrations[k].version \in applied

\* credit = -debit, debit <= 0, credit >= 0, on the numbers the values stand for
Balanced(d, c) ==
    /\ ToNumber(c) = -ToNumber(d)
    /\ ToNumber(d) <= 0
    /\ ToNumber(c) >= 0

\* empty or whitespace-only
IsBlank(s) == s \in {"", " "}

\* a step in which exists, mkdir or writeTextFile of invocation i throws
ArchiveStepFails(i) ==
    /\ inv[i].pc \in {"exists", "mkdir", "writeTextFile"}
    /\ inv'[i].pc = "caught"
    /\ i \notin archived'

\* a step in which the insert of invocation i fails after its file was
\* written: execute throws, or db.value is null when execute is called
InsertFails(i) ==
    /\ inv[i].pc \in {"writeTextFile", "execute"}
    /\ inv'[i].pc = "caught"
    /\ i \in archived'

\* what the caller of saveToLadger observes of invocation i: the state of
\* the promise it was returned and the value it settled with
Outcome(i) ==
    [promise |-> inv[i].promise,
     value   |-> IF inv[i].promise = "fulfilled" THEN "undefined" ELSE ""]

\* invocation i has ended in the catch block before its file was written
ArchiveFailed(i) == inv[i].pc = "caught" /\ i \notin archived

\* invocation i has ended in the catch block with its file written and no row
InsertFailed(i) == inv[i].pc = "caught" /\ i \in archived /\ RowsBy(tbl, i) = {}

\* the form as lines 52-55 leave it
FormIsReset == debitor = "" /\ debit = Num(0) /\ credit = Num(0) /\ creditor = ""

(***************************************************************************)
(* C1: the INSERT of an invocation is issued only after the writeTextFile  *)
(* of that invocation has returned: an invocation at or past execute has   *)
(* written its file, and every row was inserted by an invocation that had. *)
(***************************************************************************)
C1_InsertAfterArchive ==
    /\ \A i \in Invocations :
         inv[i].pc \in {"execute", "select", "assign", "done"} => i \in archived
    /\ \A k \in DOMAIN tbl : tbl[k].by \in archived

\* a row is in the table and the file of the invocation that inserted it is in the archive
C1_Witness == \E k \in DOMAIN tbl : \E p \in Written : files[p].by = tbl[k].by

(***************************************************************************)
(* C2: when exists, mkdir or writeTextFile throws, that step leaves the    *)
(* table, transactions.value and the four form refs as they were, and the  *)
(* invocation has ended: it stays in the catch block and never has a row.  *)
(***************************************************************************)
C2_ArchiveFailureAborts ==
    [][\A i \in Invocations :
          /\ ArchiveStepFails(i) =>
                /\ tbl' = tbl
                /\ transactions' = transactions
                /\ form' = form
          /\ (inv[i].pc = "caught" /\ i \notin archived) =>
                /\ inv'[i].pc = "caught"
                /\ i \notin archived'
                /\ RowsBy(tbl', i) = {}]_vars

\* an archival step has failed while the form held typed values, with a row
\* of another save already in the table
C2_Witness ==
    \E i \in Invocations :
        /\ inv[i].pc = "caught"
        /\ i \notin archived
        /\ debitor = "Alice"
        /\ tbl # <<>>

(***************************************************************************)
(* C3: the file and the row written by one invocation carry the same       *)
(* debitor, debit, credit and creditor: the file's content is the          *)
(* rendering of the row's values.                                          *)
(***************************************************************************)
C3_FileAndRowAgree ==
    \A k \in DOMAIN tbl : \A p \in Written :
        files[p].by = tbl[k].by =>
            files[p].content =
                content(tbl[k].debitor, tbl[k].debit, tbl[k].credit, tbl[k].creditor)

(***************************************************************************)
(* C4: when the insert fails after the file was written, the file of that  *)
(* invocation is in the archive with the content the invocation rendered,  *)
(* the table has no row of the invocation, and no row and no other file    *)
(* is changed.                                                             *)
(***************************************************************************)
C4_OrphanFileState ==
    [][\A i \in Invocations :
          InsertFails(i) =>
              /\ files'[inv[i].fullPath].by # 0
              /\ files'[inv[i].fullPath].content = inv[i].content
              /\ RowsBy(tbl', i) = {}
              /\ tbl' = tbl
              /\ \A p \in Written \ {inv[i].fullPath} : files'[p] = files[p]
              /\ inv[i].pc = "execute" => files' = files]_vars

(***************************************************************************)
(* C5: for a non-zero magnitude m, updateDebitCreditValues sets credit to  *)
(* |m| and debit to -|m|, so credit + debit = 0, debit <= 0 <= credit, and *)
(* m and -m give the same result.  Stated for a number argument, and for   *)
(* the string argument every input event on the form passes (inputs counts *)
(* the input events).                                                      *)
(***************************************************************************)
C5_UpdateDebitCreditValues ==
    [][inputs' # inputs =>
          /\ \A m \in Amounts \ {0} :
                /\ updateDebitCreditValues(Num(m)) =
                       [credit |-> Num(Abs(m)), debit |-> Num(-Abs(m))]
                /\ updateDebitCreditValues(Num(m)) = updateDebitCreditValues(Num(-m))
          /\ \A s \in NumberInputs :
                (inputAmount(s) /\ StringToNumber(s) # 0) =>
                    /\ credit' = Num(Abs(StringToNumber(s)))
                    /\ ToNumber(debit') = -Abs(StringToNumber(s))
                    /\ ToNumber(credit') + ToNumber(debit') = 0
                    /\ ToNumber(debit') <= 0
                    /\ ToNumber(credit') >= 0]_vars

\* a non-zero amount has been typed
C5_Witness == inputs > 0 /\ ToNumber(credit) = 1 /\ ToNumber(debit) = -1

(***************************************************************************)
(* C6: every archival file and every row satisfies credit = -debit with    *)
(* debit <= 0 and credit >= 0.                                             *)
(***************************************************************************)
C6_PersistedBalanced ==
    /\ \A p \in Written : Balanced(Str(FileDebit(files[p])), Str(FileCredit(files[p])))
    /\ \A k \in DOMAIN tbl : Balanced(tbl[k].debit, tbl[k].credit)

\* a file and a row with a non-zero amount exist
C6_Witness ==
    /\ \E p \in Written : FileCredit(files[p]) = "1" /\ FileDebit(files[p]) = "-1"
    /\ \E k \in DOMAIN tbl : ToNumber(tbl[k].credit) = 1

(***************************************************************************)
(* C7: a save with magnitude 0 is rejected: no archival file and no row    *)
(* has debit = 0 and credit = 0.                                           *)
(***************************************************************************)
C7_ZeroAmountRejected ==
    /\ \A p \in Written : StringToNumber(FileCredit(files[p])) # 0
    /\ \A k \in DOMAIN tbl : ToNumber(tbl[k].credit) # 0

(***************************************************************************)
(* C8: a save with an empty or whitespace-only debitor or creditor is      *)
(* rejected: no archival file and no row has a blank debitor or creditor.  *)
(***************************************************************************)
C8_EmptyPartyRejected ==
    /\ \A p \in Written :
         ~IsBlank(FileDebitor(files[p])) /\ ~IsBlank(FileCreditor(files[p]))
    /\ \A k \in DOMAIN tbl : ~IsBlank(tbl[k].debitor) /\ ~IsBlank(tbl[k].creditor)

(***************************************************************************)
(* C9: at most one saveToLadger invocation is in flight at any time.       *)
(***************************************************************************)
C9_SingleFlight == Cardinality({i \in Invocations : InFlight(i)}) <= 1

(***************************************************************************)
(* C10: no archival write and no insert of saveToLadger happens before the *)
(* startup sequence has completed.                                         *)
(***************************************************************************)
C10_StartupBarrier ==
    /\ \A i \in archived : StartupCompleted
    /\ tbl # <<>> => StartupCompleted

(***************************************************************************)
(* C11: for a list of migrations with pairwise distinct versions, in any   *)
(* order, all_migrations returns (it does not panic) exactly the listed    *)
(* migrations, sorted strictly ascending by version.                       *)
(***************************************************************************)
C11_SortedByVersion ==
    ~HasDuplicateVersion(registered) =>
        /\ appPc # "panicked"
        /\ appPc = "running" =>
              /\ Len(migrations) = Len(registered)
              /\ {migrations[k] : k \in DOMAIN migrations} =
                     {registered[k] : k \in DOMAIN registered}
              /\ \A k \in 1..(Len(migrations) - 1) :
                     VersionLess(migrations[k].version, migrations[k + 1].version)

\* three migrations with distinct versions, listed out of order, are finalized
C11_Witness ==
    /\ appPc = "running"
    /\ Len(registered) = 3
    /\ ~HasDuplicateVersion(registered)
    /\ VersionLess(registered[3].version, registered[1].version)
    /\ VersionLess(registered[2].version, registered[3].version)

(***************************************************************************)
(* C12: when two listed migrations share a version, all_migrations fails:  *)
(* the backend never runs with a migration list, nothing is handed to the  *)
(* SQL plugin and no migration is applied, whatever the build.             *)
(***************************************************************************)
C12_DuplicateVersionFails ==
    HasDuplicateVersion(registered) =>
        /\ appPc # "running"
        /\ migrations = <<>>
        /\ applied = {}

(***************************************************************************)
(* C13: an invocation whose archival step failed and an invocation whose   *)
(* insert failed end with different outcomes for the caller.               *)
(***************************************************************************)
C13_FailuresDistinguishable ==
    \A i \in Invocations : \A j \in Invocations :
        (ArchiveFailed(i) /\ InsertFailed(j)) => Outcome(i) # Outcome(j)

(***************************************************************************)
(* C14: when an invocation completes successfully, transactions.value      *)
(* holds an entry of that invocation whose debitor, debit, credit and      *)
(* creditor are those the form held when saveToLadger was invoked (the     *)
(* values rendered into content at line 17).                               *)
(***************************************************************************)
C14_RoundTrip ==
    [][\A i \in Invocations :
          (inv[i].pc = "assign" /\ inv'[i].pc = "done") =>
              \E k \in DOMAIN transactions' :
                  /\ transactions'[k].by = i
                  /\ content(transactions'[k].debitor, transactions'[k].debit,
                             transactions'[k].credit, transactions'[k].creditor)
                        = inv[i].content]_vars

(***************************************************************************)
(* C15: the file name and the row of one invocation carry the same         *)
(* timestamp: there is one clock reading t of which the path is the        *)
(* sanitized rendering and the row's timestamp column the ISO rendering.   *)
(***************************************************************************)
C15_OneTimestamp ==
    \A k \in DOMAIN tbl : \A p \in Written :
        files[p].by = tbl[k].by =>
            \E t \in 0..MaxClock :
                p = fullPath(t) /\ tbl[k].timestamp = Join(toISOString(t))

(***************************************************************************)
(* C16: an invocation in which a persistence step failed completes as      *)
(* failed for its caller: the promise it returned is rejected.             *)
(***************************************************************************)
C16_FailureObserved ==
    \A i \in Invocations : inv[i].pc = "caught" => inv[i].promise = "rejected"

(***************************************************************************)
(* C17: when the insert fails after the file was written, the form does    *)
(* not keep the input: the step that ends the invocation leaves the four   *)
(* refs reset.                                                             *)
(***************************************************************************)
C17_InputNotKeptAfterInsertFailure ==
    [][\A i \in Invocations : InsertFails(i) => FormIsReset']_vars

IsPrefix(rows, all) == Len(rows) <= Len(all) /\ rows = SubSeq(all, 1, Len(rows))

AscendingById(rows) == \A k \in 1..(Len(rows) - 1) : rows[k].id < rows[k + 1].id

C19_ArchiveAppendOnly ==
    [][\A p \in Paths : files[p].by # 0 => files'[p] = files[p]]_vars

Rank(pc) ==
    CASE pc = "idle" -> 0
      [] pc = "exists" -> 1
      [] pc = "mkdir" -> 2
      [] pc = "writeTextFile" -> 3
      [] pc = "execute" -> 4
      [] pc = "select" -> 5
      [] pc = "assign" -> 6
      [] pc \in {"done", "caught"} -> 7

ArchiveFormat(a, d, c, b) ==
    "---\n" \o "debitor: " \o a \o "\n" \o "debit: " \o d \o "\n"
            \o "credit: " \o c \o "\n" \o "creditor: " \o b \o "\n" \o "---\n"

\* the sanitized ISO 8601 timestamps within the clock's range: no colon, no dot
SanitizedTimestamps == {"2026-01-01T00-00-00-00" \o Digits[t + 1] \o "Z" : t \in 0..MaxClock}

ArchivePaths ==
    {"Vault/Finance/Transactions/ladger-entry-" \o ts \o ".md" : ts \in SanitizedTimestamps}

(***************************************************************************)
(* C21: every archival file written is, as text, the archival format of    *)
(* its four values, and its path is ladger-entry-<sanitized timestamp>.md  *)
(* under Vault/Finance/Transactions.                                       *)
(***************************************************************************)
C21_ArchiveFileFormat ==
    \A p \in DOMAIN files :
        files[p].by # 0 =>
            /\ Join(files[p].content) =
                  ArchiveFormat(FileDebitor(files[p]), FileDebit(files[p]),
                                FileCredit(files[p]), FileCreditor(files[p]))
            /\ p \in ArchivePaths

\* the handle is loaded and neither a saveToLadger invocation nor the query
\* of onMounted is in flight
Quiescent ==
    /\ db = "handle"
    /\ \A i \in Invocations : ~InFlight(i)
    /\ mountPc \notin {"load", "select", "assign"}

\* the save started last has completed successfully
LastSaveSucceeded == started > 0 /\ inv[started].pc = "done"

(***************************************************************************)
(* C22: with the handle loaded and nothing in flight, transactions.value   *)
(* equals the table whenever the last save succeeded; and the rows of a    *)
(* select that read the table before an insert never replace the rows of a *)
(* select that read it after: transactions.value never goes back to an     *)
(* earlier, shorter reading of the table.                                  *)
(***************************************************************************)
C22_ListIsCurrent ==
    /\ []((Quiescent /\ LastSaveSucceeded) => transactions = tbl)
    /\ [][Len(transactions') >= Len(transactions)]_vars

=============================================================================
